---- MODULE Spec2Model ----
(***************************************************************************)
(* A model of aten/src/ATen/native/TensorCompare.cpp: the meta and impl    *)
(* steps of clamp, isclose, isin, min/max/mode with indices and where.     *)
(*                                                                         *)
(* Tensors are one-dimensional sequences of element values.  A floating    *)
(* element is an integer code: the finite values are themselves, and the   *)
(* three special values are PosInf, NegInf and NaN below.  Positions are   *)
(* 1-based where the library's are 0-based.                                *)
(*                                                                         *)
(* The library keeps no state between calls except the flag behind         *)
(* TORCH_WARN_ONCE; the state of the model is that flag plus the record    *)
(* of the last call: its operation, its arguments and what it did.         *)
(***************************************************************************)
EXTENDS Integers, Sequences, FiniteSets, TLC

\* ------------------------------------------------------------------ bounds
\* Finite element values are 0..MaxVal (and their negatives where signed).
MaxVal == 1
\* Longest elements sequence drawn.
MaxElems == 3
\* Longest test_elements sequence drawn, the long ones around the size
\* heuristic apart.
MaxTest == 1
\* Highest rank and highest size of a dimension of the tensors drawn for the
\* reductions.
MaxRank == 2
MaxSize == 2
\* Where calls are drawn while fewer warnings than this have been emitted.
MaxWarnings == 2

\* ------------------------------------------------------------ element values
PosInf == MaxVal + 1
NegInf == 0 - (MaxVal + 1)
NaN == MaxVal + 2

\* operator== / operator!= on elements: NaN is unordered.
eq(a, b) == a # NaN /\ b # NaN /\ a = b
ne(a, b) == ~eq(a, b)

SeqsUpTo(S, n) == UNION {[1..k -> S] : k \in 0..n}

\* ------------------------------------------------------- array primitives
\* Ascending order of sort(): NaN sorts after every number.
SortLess(a, b) == (a # NaN /\ b = NaN) \/ (a # NaN /\ b # NaN /\ a < b)

\* Rank of position i under a stable ascending sort of s.
StableRank(s, i) ==
    1 + Cardinality({j \in 1..Len(s) :
            \/ SortLess(s[j], s[i])
            \/ (~SortLess(s[i], s[j]) /\ ~SortLess(s[j], s[i]) /\ j < i)})

\* Rank under a sort that is not stable: ties in reverse input order.
UnstableRank(s, i) ==
    1 + Cardinality({j \in 1..Len(s) :
            \/ SortLess(s[j], s[i])
            \/ (~SortLess(s[i], s[j]) /\ ~SortLess(s[j], s[i]) /\ j > i)})

\* The permutation that sorts: the position holding rank r, for every r.
OrderOfRanks(ranks) ==
    [r \in DOMAIN ranks |-> CHOOSE i \in DOMAIN ranks : ranks[i] = r]
\* The rank of every position of s.
SortRanks(s, stable) ==
    [i \in 1..Len(s) |-> IF stable THEN StableRank(s, i) ELSE UnstableRank(s, i)]
\* Tensor::sort(stable, dim=0, descending=false): (sorted values, permutation).
\* (A value bound over a singleton set is computed once, here and below.)
sort(s, stable) ==
    CHOOSE result \in {[values |-> [r \in 1..Len(s) |-> s[order[r]]], order |-> order]
                        : order \in {OrderOfRanks(SortRanks(s, stable))}} : TRUE

\* at::cat of two 1-D tensors.
cat(a, b) == a \o b

\* Positions i and j of x hold the same value for _unique; whether two NaNs
\* are the same value is left to the primitive (collapse).
SameValue(x, i, j, collapse) == x[i] = x[j] /\ (x[i] # NaN \/ collapse)

\* First occurrence of every distinct value of x.
Representatives(x, collapse) ==
    {i \in 1..Len(x) : \A j \in 1..(i - 1) : ~SameValue(x, j, i, collapse)}

\* Every ordering of the set S, as a sequence.
RECURSIVE Orderings(_)
Orderings(S) ==
    IF S = {} THEN {<<>>}
    ELSE UNION {{<<x>> \o p : p \in Orderings(S \ {x})} : x \in S}

\* The positions of S in ascending and in descending order.
RECURSIVE Ascending(_)
Ascending(S) ==
    IF S = {} THEN <<>>
    ELSE LET m == CHOOSE x \in S : \A y \in S : x <= y
         IN  <<m>> \o Ascending(S \ {m})
Reverse(s) == [i \in 1..Len(s) |-> s[Len(s) + 1 - i]]

\* The orders _unique may give the distinct values whose first occurrences
\* are at positions reps: every order for a short input, first-occurrence
\* order and its reverse for a long one.
UniqueOrders(reps) ==
    IF Cardinality(reps) <= MaxElems
    THEN Orderings(reps)
    ELSE {Ascending(reps), Reverse(Ascending(reps))}

\* at::_unique(x, sorted=false, return_inverse=true): the distinct values in
\* an order the primitive chooses, and for every position of x the position
\* of its value among them.
UniqueOutcomes(x) ==
    UNION {
      { [values |-> [k \in 1..Len(p) |-> x[p[k]]],
         inverse |-> [i \in 1..Len(x) |->
                        CHOOSE k \in 1..Len(p) : SameValue(x, p[k], i, collapse) \/ p[k] = i]]
        : p \in UniqueOrders(Representatives(x, collapse)) }
      : collapse \in BOOLEAN }

\* The outcomes of the _unique call of isin_sorting on x: the call is not made
\* when assume_unique is set.
UniqueCall(x, assume_unique) ==
    IF assume_unique THEN {[values |-> <<>>, inverse |-> <<>>]} ELSE UniqueOutcomes(x)

\* Tensor::ravel of a 1-D tensor.
ravel(x) == x

\* ------------------------------------------------------------------ dtypes
DTypes == {"Bool", "Byte", "Long", "Float", "Double", "BFloat16",
           "ComplexFloat", "ComplexDouble", "QInt8"}

isComplexType(t) == t \in {"ComplexFloat", "ComplexDouble"}
isFloatingType(t) == t \in {"Float", "Double", "BFloat16"}
isIntegralType(t, includeBool) == t \in {"Byte", "Long"} \/ (includeBool /\ t = "Bool")
is_quantized(t) == t = "QInt8"

\* ------------------------------------------------------------------- isin
\* check_for_unsupported_isin_dtype: TRUE when the TORCH_CHECK passes.
check_for_unsupported_isin_dtype(type) ==
    type # "Bool" /\ type # "BFloat16" /\ type # "ComplexFloat" /\ type # "ComplexDouble"

\* TORCH_META_FUNC2(isin, Tensor_Tensor): the error raised, and what the meta
\* step did before it returned or raised.
isin_Tensor_Tensor_meta(elements_type, test_elements_type) ==
    IF ~check_for_unsupported_isin_dtype(elements_type)
    THEN [err |-> "UnsupportedType", effects |-> <<>>]
    ELSE IF ~check_for_unsupported_isin_dtype(test_elements_type)
    THEN [err |-> "UnsupportedType", effects |-> <<>>]
    ELSE [err |-> "none", effects |-> <<"set_output">>]

\* isin_default_stub after out.fill_(invert): the brute-force kernel.
isin_default_stub(elements, test_elements, invert) ==
    [i \in 1..Len(elements) |->
        invert # (\E j \in 1..Len(test_elements) : eq(elements[i], test_elements[j]))]

\* Step 3 with the last position left at FALSE instead of invert.
DuplicateMaskLastFalse(sorted_elements, invert) ==
    [i \in 1..Len(sorted_elements) |->
        IF i < Len(sorted_elements)
        THEN IF invert THEN ne(sorted_elements[i + 1], sorted_elements[i])
                       ELSE eq(sorted_elements[i + 1], sorted_elements[i])
        ELSE FALSE]

\* Step 3 of isin_sorting: compare each sorted entry with its successor; the
\* last position is set to invert.
DuplicateMask(sorted_elements, invert) ==
    [i \in 1..Len(sorted_elements) |->
        IF i < Len(sorted_elements)
        THEN IF invert THEN ne(sorted_elements[i + 1], sorted_elements[i])
                       ELSE eq(sorted_elements[i + 1], sorted_elements[i])
        ELSE invert]

\* Step 4 left out: the mask stays in sorted order.
ReorderMaskSkipped(duplicate_mask, sorted_order) == duplicate_mask

\* Step 4: mask.index_copy_(0, sorted_order, duplicate_mask).
ReorderMask(duplicate_mask, sorted_order) ==
    [p \in 1..Len(duplicate_mask) |->
        duplicate_mask[CHOOSE i \in 1..Len(sorted_order) : sorted_order[i] = p]]

\* Step 5: the first N items of the mask, or the mask indexed by unique_order.
IndexMask(mask, numel, assume_unique, unique_order) ==
    IF assume_unique
    THEN [i \in 1..numel |-> mask[i]]
    ELSE [i \in 1..numel |-> mask[unique_order[i]]]

\* Steps 1 and 2 with a sort that is not stable.
SortedElements_NotStable(elements, test_elements, assume_unique, ue, ut) ==
    LET elements_flat == IF assume_unique THEN ravel(elements) ELSE ue.values
        test_elements_flat == IF assume_unique THEN ravel(test_elements) ELSE ut.values
        all_elements == cat(elements_flat, test_elements_flat)
    IN  CHOOSE result \in
          {[values |-> sorted.values, order |-> sorted.order,
            origin |-> [r \in 1..Len(all_elements) |->
                          IF sorted.order[r] <= Len(elements_flat) THEN "elements"
                                                                   ELSE "test_elements"],
            unique_order |-> IF assume_unique THEN <<>> ELSE ue.inverse]
           : sorted \in {sort(all_elements, FALSE)}} : TRUE

\* The sorted concatenation of steps 1 and 2, as (values, order, unique_order).
\* ue and ut are the outcomes of the two _unique calls.
SortedElements(elements, test_elements, assume_unique, ue, ut) ==
    LET elements_flat == IF assume_unique THEN ravel(elements) ELSE ue.values
        test_elements_flat == IF assume_unique THEN ravel(test_elements) ELSE ut.values
        all_elements == cat(elements_flat, test_elements_flat)
    IN  CHOOSE result \in
          {[values |-> sorted.values, order |-> sorted.order,
            origin |-> [r \in 1..Len(all_elements) |->
                          IF sorted.order[r] <= Len(elements_flat) THEN "elements"
                                                                   ELSE "test_elements"],
            unique_order |-> IF assume_unique THEN <<>> ELSE ue.inverse]
           : sorted \in {sort(all_elements, TRUE)}} : TRUE

\* isin_sorting: the mask copied into out.
isin_sorting(elements, test_elements, assume_unique, invert, ue, ut) ==
    CHOOSE out \in
      {IndexMask(ReorderMask(DuplicateMask(s.values, invert), s.order),
                 Len(elements), assume_unique, s.unique_order)
       : s \in {SortedElements(elements, test_elements, assume_unique, ue, ut)}} : TRUE

\* floor(1000 * 10 * n^0.145) for n = 0..9: the real value of the heuristic
\* 10.0f * std::pow(n, 0.145), to three decimals.
Pow145Milli(n) == <<0, 10000, 11057, 11726, 12226, 12628, 12966, 13259, 13519, 13751>>[n + 1]

\* static_cast<int64_t>(10.0f * std::pow(static_cast<double>(n), 0.145))
HeuristicThreshold(n) == Pow145Milli(n) \div 1000

\* The impl step without its early return on an empty elements.
isin_Tensor_Tensor_out_NoEarlyReturn(elements, test_elements, assume_unique, invert, ue, ut) ==
    IF Len(test_elements) < HeuristicThreshold(Len(elements))
    THEN [effects |-> <<"out.fill_", "isin_default_stub">>,
          out |-> isin_default_stub(elements, test_elements, invert)]
    ELSE [effects |-> <<"isin_sorting", "out.copy_">>,
          out |-> isin_sorting(elements, test_elements, assume_unique, invert, ue, ut)]

\* TORCH_IMPL_FUNC(isin_Tensor_Tensor_out): the effects on out, in order, and
\* the mask (empty when out was not written).
isin_Tensor_Tensor_out(elements, test_elements, assume_unique, invert, ue, ut) ==
    IF Len(elements) = 0
    THEN [effects |-> <<>>, out |-> <<>>]
    ELSE IF Len(test_elements) < HeuristicThreshold(Len(elements))
    THEN [effects |-> <<"out.fill_", "isin_default_stub">>,
          out |-> isin_default_stub(elements, test_elements, invert)]
    ELSE [effects |-> <<"isin_sorting", "out.copy_">>,
          out |-> isin_sorting(elements, test_elements, assume_unique, invert, ue, ut)]

\* ------------------------------------------------------------------ clamp
\* An absent optional bound, and the scalar bounds drawn: an integer, a finite
\* double, a NaN double and a complex number with no imaginary part.
None == [type |-> "None", value |-> 0]
Scalars ==
    {[type |-> "Long", value |-> 1], [type |-> "Double", value |-> 1],
     [type |-> "Double", value |-> NaN], [type |-> "ComplexDouble", value |-> 1]}

\* Scalar::isComplex, and s.toDouble() != s.toDouble().
ScalarIsComplex(s) == s.type = "ComplexDouble"
ScalarIsNaN(s) == s.type = "Double" /\ s.value = NaN

\* The category order of type promotion: bool < integer < floating < complex.
Category(t) ==
    IF t = "Bool" THEN 0
    ELSE IF isIntegralType(t, FALSE) THEN 1
    ELSE IF isFloatingType(t) THEN 2
    ELSE 3

\* The dtype a scalar contributes: the default dtype of its category.
ScalarDType(s) ==
    IF s.type = "Double" THEN "Float"
    ELSE IF s.type = "ComplexDouble" THEN "ComplexFloat"
    ELSE s.type

\* update_result_type_state for one operand: an absent bound adds nothing, a
\* scalar of a higher category than the state raises it.
update_result_type_state(s, state) ==
    IF s.type # "None" /\ Category(ScalarDType(s)) > Category(state)
    THEN ScalarDType(s)
    ELSE state

\* at::native::result_type over self and the given scalar bounds.
result_type(self_type, min, max) ==
    update_result_type_state(max, update_result_type_state(min, self_type))

\* The in-place check left out.
InplacePromotionCheckSkipped(promoted_type, self_type, output) == TRUE

\* The in-place check: TRUE when the TORCH_CHECK passes.  output is
\* "undefined", "self" (is_same(self)) or "other".
InplacePromotionCheck(promoted_type, self_type, output) ==
    promoted_type = self_type \/ output = "undefined" \/ output # "self"

\* The complex check of clamp on the dtype it is given: TRUE when it passes.
ComplexCheck(type) == ~isComplexType(type)

\* TORCH_META_FUNC(clamp) with the check of self's dtype before the check that
\* a bound is given.
clamp_meta_ComplexFirst(self_type, min, max, output) ==
    LET promote == ~isFloatingType(self_type)
        type == IF promote THEN result_type(self_type, min, max) ELSE self_type
    IN  IF ~ComplexCheck(self_type)
        THEN [err |-> "UnsupportedType", result_type |-> "Undefined", promoted |-> FALSE,
              effects |-> <<>>]
        ELSE IF min.type = "None" /\ max.type = "None"
        THEN [err |-> "InvalidArgument", result_type |-> "Undefined", promoted |-> FALSE,
              effects |-> <<>>]
        ELSE IF promote /\ ~InplacePromotionCheck(type, self_type, output)
        THEN [err |-> "UnsafeCast", result_type |-> "Undefined", promoted |-> promote,
              effects |-> <<>>]
        ELSE IF ~ComplexCheck(type)
        THEN [err |-> "UnsupportedType", result_type |-> "Undefined", promoted |-> promote,
              effects |-> <<>>]
        ELSE [err |-> "none", result_type |-> type, promoted |-> promote,
              effects |-> <<"build_unary_op">>]

\* TORCH_META_FUNC(clamp): the error, the result dtype, whether promotion was
\* computed, and the effects.
clamp_meta(self_type, min, max, output) ==
    LET promote == ~isFloatingType(self_type)
        type == IF promote THEN result_type(self_type, min, max) ELSE self_type
    IN  IF min.type = "None" /\ max.type = "None"
        THEN [err |-> "InvalidArgument", result_type |-> "Undefined", promoted |-> FALSE,
              effects |-> <<>>]
        ELSE IF ~ComplexCheck(self_type)
        THEN [err |-> "UnsupportedType", result_type |-> "Undefined", promoted |-> FALSE,
              effects |-> <<>>]
        ELSE IF promote /\ ~InplacePromotionCheck(type, self_type, output)
        THEN [err |-> "UnsafeCast", result_type |-> "Undefined", promoted |-> promote,
              effects |-> <<>>]
        ELSE IF ~ComplexCheck(type)
        THEN [err |-> "UnsupportedType", result_type |-> "Undefined", promoted |-> promote,
              effects |-> <<>>]
        ELSE [err |-> "none", result_type |-> type, promoted |-> promote,
              effects |-> <<"build_unary_op">>]

\* TORCH_META_FUNC(clamp_max) and TORCH_META_FUNC(clamp_min): one scalar bound.
clamp_bound_meta(self_type, bound, output) ==
    IF ~ComplexCheck(self_type)
    THEN [err |-> "UnsupportedType", result_type |-> "Undefined", promoted |-> FALSE,
          effects |-> <<>>]
    ELSE IF ScalarIsComplex(bound)
    THEN [err |-> "UnsupportedType", result_type |-> "Undefined", promoted |-> FALSE,
          effects |-> <<>>]
    ELSE IF ~isFloatingType(self_type)
    THEN IF ~InplacePromotionCheck(result_type(self_type, bound, None), self_type, output)
         THEN [err |-> "UnsafeCast", result_type |-> "Undefined", promoted |-> TRUE,
               effects |-> <<>>]
         ELSE [err |-> "none", result_type |-> result_type(self_type, bound, None),
               promoted |-> TRUE, effects |-> <<"build_unary_op">>]
    ELSE [err |-> "none", result_type |-> self_type, promoted |-> FALSE,
          effects |-> <<"build_borrowing_unary_op">>]

clamp_max_meta(self_type, max, output) == clamp_bound_meta(self_type, max, output)
clamp_min_meta(self_type, min, output) == clamp_bound_meta(self_type, min, output)

\* TORCH_IMPL_FUNC(clamp_out): what it does to result.
clamp_out(min, max) ==
    IF min.type # "None" /\ max.type # "None"
    THEN IF ScalarIsNaN(min) \/ ScalarIsNaN(max)
         THEN <<"fill_NaN">>
         ELSE <<"clamp_scalar_stub">>
    ELSE IF max.type # "None"
    THEN <<"clamp_max_scalar_stub">>
    ELSE IF min.type # "None"
    THEN <<"clamp_min_scalar_stub">>
    ELSE <<>>

\* TORCH_IMPL_FUNC(clamp_max_out) and TORCH_IMPL_FUNC(clamp_min_out).
clamp_max_out(max) ==
    IF ScalarIsNaN(max) THEN <<"fill_NaN">> ELSE <<"clamp_max_scalar_stub">>
clamp_min_out(min) ==
    IF ScalarIsNaN(min) THEN <<"fill_NaN">> ELSE <<"clamp_min_scalar_stub">>

\* TORCH_META_FUNC2(clamp, Tensor): bounds are tensors, given by dtype ("None"
\* when absent).
clamp_Tensor_meta(self_type, min_type, max_type) ==
    IF ~(min_type # "None" \/ max_type # "None")
    THEN [err |-> "InvalidArgument", effects |-> <<>>]
    ELSE IF isComplexType(self_type)
    THEN [err |-> "UnsupportedType", effects |-> <<>>]
    ELSE [err |-> "none", effects |-> <<"build">>]

\* TORCH_META_FUNC2(clamp_max, Tensor) and TORCH_META_FUNC2(clamp_min, Tensor).
clamp_max_Tensor_meta(self_type, max_type) ==
    [err |-> "none", effects |-> <<"build_borrowing_binary_op">>]
clamp_min_Tensor_meta(self_type, min_type) ==
    [err |-> "none", effects |-> <<"build_borrowing_binary_op">>]

\* The impl step of array-bound clamp always dispatching the combined kernel.
clamp_Tensor_out_AlwaysClamp(min_type, max_type) == <<"clamp_stub">>

\* TORCH_IMPL_FUNC(clamp_Tensor_out): the kernel dispatched.
clamp_Tensor_out(min_type, max_type) ==
    IF min_type # "None" /\ max_type # "None" THEN <<"clamp_stub">>
    ELSE IF min_type # "None" THEN <<"maximum_stub">>
    ELSE IF max_type # "None" THEN <<"minimum_stub">>
    ELSE <<>>

\* TORCH_IMPL_FUNC(clamp_max_Tensor_out) and TORCH_IMPL_FUNC(clamp_min_Tensor_out).
clamp_max_Tensor_out == <<"minimum_stub">>
clamp_min_Tensor_out == <<"maximum_stub">>

\* A structured call: the meta step, and the impl step if the meta step passed.
StructuredCall(meta, impl_effects) ==
    IF meta.err # "none"
    THEN [err |-> meta.err, effects |-> meta.effects]
    ELSE [err |-> "none", effects |-> meta.effects \o impl_effects]

\* --------------------------------------------------------------- isclose
\* A floating value in arithmetic: finite with its value, infinite with its
\* sign, or not a number.
Fin(v) == [k |-> "fin", v |-> v]
Inf(sign) == [k |-> "inf", v |-> sign]
Nan == [k |-> "nan", v |-> 0]
Decode(x) ==
    IF x = NaN THEN Nan
    ELSE IF x = PosInf THEN Inf(1)
    ELSE IF x = NegInf THEN Inf(0 - 1)
    ELSE Fin(x)

\* IEEE subtraction, multiplication, addition, abs, <= and isfinite.
FSub(a, b) ==
    IF a.k = "nan" \/ b.k = "nan" THEN Nan
    ELSE IF a.k = "inf" /\ b.k = "inf" THEN (IF a.v = b.v THEN Nan ELSE a)
    ELSE IF a.k = "inf" THEN a
    ELSE IF b.k = "inf" THEN Inf(0 - b.v)
    ELSE Fin(a.v - b.v)
FMul(a, b) ==
    IF a.k = "nan" \/ b.k = "nan" THEN Nan
    ELSE IF a.k = "fin" /\ b.k = "fin" THEN Fin(a.v * b.v)
    ELSE IF (a.k = "fin" /\ a.v = 0) \/ (b.k = "fin" /\ b.v = 0) THEN Nan
    ELSE Inf((IF a.v < 0 THEN 0 - 1 ELSE 1) * (IF b.v < 0 THEN 0 - 1 ELSE 1))
FAdd(a, b) ==
    IF a.k = "nan" \/ b.k = "nan" THEN Nan
    ELSE IF a.k = "inf" /\ b.k = "inf" THEN (IF a.v = b.v THEN a ELSE Nan)
    ELSE IF a.k = "inf" THEN a
    ELSE IF b.k = "inf" THEN b
    ELSE Fin(a.v + b.v)
FAbs(a) ==
    IF a.k = "nan" THEN Nan
    ELSE IF a.k = "inf" THEN Inf(1)
    ELSE Fin(IF a.v < 0 THEN 0 - a.v ELSE a.v)
FLessEqual(a, b) ==
    IF a.k = "nan" \/ b.k = "nan" THEN FALSE
    ELSE IF a.k = "fin" /\ b.k = "fin" THEN a.v <= b.v
    ELSE IF a.k = "inf" THEN a.v < 0 \/ (b.k = "inf" /\ b.v > 0)
    ELSE b.v > 0
FIsFinite(a) == a.k = "fin"

\* rtol >= 0 and atol >= 0 on doubles: false for a NaN.
GreaterEqualZero(t) == t # NaN /\ t >= 0

\* The short-circuit never taken.
ZeroTolerancesNever(rtol, atol) == FALSE

\* rtol == 0 && atol == 0
ZeroTolerances(rtol, atol) == rtol = 0 /\ atol = 0

\* The validation of isclose with the quantized check before the dtype check.
isclose_check_QuantizedFirst(self_type, other_type, rtol, atol) ==
    IF is_quantized(self_type) \/ is_quantized(other_type) THEN "quantized"
    ELSE IF self_type # other_type THEN "dtype"
    ELSE IF ~GreaterEqualZero(rtol) THEN "rtol"
    ELSE IF ~GreaterEqualZero(atol) THEN "atol"
    ELSE "none"

\* The validation of isclose: the first TORCH_CHECK that fails.
isclose_check(self_type, other_type, rtol, atol) ==
    IF self_type # other_type THEN "dtype"
    ELSE IF is_quantized(self_type) \/ is_quantized(other_type) THEN "quantized"
    ELSE IF ~GreaterEqualZero(rtol) THEN "rtol"
    ELSE IF ~GreaterEqualZero(atol) THEN "atol"
    ELSE "none"

\* The error each failed check of isclose raises.
IscloseError(failed) ==
    IF failed = "dtype" THEN "DtypeMismatch"
    ELSE IF failed = "quantized" THEN "UnsupportedType"
    ELSE IF failed \in {"rtol", "atol"} THEN "InvalidArgument"
    ELSE "none"

\* Equality closeness of one pair of elements.
EqualityClose(self_type, a, b, equal_nan) ==
    IF equal_nan /\ (isFloatingType(self_type) \/ isComplexType(self_type))
    THEN eq(a, b) \/ (ne(a, a) /\ ne(b, b))
    ELSE eq(a, b)

\* Finite closeness of one pair of elements: the error is finite and at most
\* atol + abs(rtol * other).
FiniteClose(a, b, rtol, atol) ==
    LET allowed_error == FAdd(Decode(atol), FAbs(FMul(Decode(rtol), Decode(b))))
        actual_error == FAbs(FSub(Decode(a), Decode(b)))
    IN  FIsFinite(actual_error) /\ FLessEqual(actual_error, allowed_error)

\* isclose once validated: the mask, and whether the error was computed.
isclose_compute(self_type, self, other, rtol, atol, equal_nan) ==
    IF ZeroTolerances(rtol, atol)
    THEN [out |-> [i \in 1..Len(self) |-> EqualityClose(self_type, self[i], other[i], equal_nan)],
          error_computed |-> FALSE]
    ELSE [out |-> [i \in 1..Len(self) |->
                     \/ EqualityClose(self_type, self[i], other[i], equal_nan)
                     \/ FiniteClose(self[i], other[i], rtol, atol)],
          error_computed |-> TRUE]

\* at::native::isclose.
isclose(self_type, other_type, self, other, rtol, atol, equal_nan) ==
    LET failed == isclose_check(self_type, other_type, rtol, atol)
    IN  IF failed # "none"
        THEN [err |-> IscloseError(failed), failed |-> failed, effects |-> <<>>,
              out |-> <<>>, error_computed |-> FALSE]
        ELSE [err |-> "none", failed |-> "none",
              effects |-> IF isclose_compute(self_type, self, other, rtol, atol,
                                             equal_nan).error_computed
                          THEN <<"eq", "isfinite", "le">> ELSE <<"eq">>,
              out |-> isclose_compute(self_type, self, other, rtol, atol, equal_nan).out,
              error_computed |-> isclose_compute(self_type, self, other, rtol, atol,
                                                 equal_nan).error_computed]

\* ------------------------------------------- isin with a scalar operand
\* TORCH_META_FUNC2(isin, Tensor_Scalar) and TORCH_META_FUNC2(isin, Scalar_Tensor):
\* the two dtype checks, then the output.
isin_Tensor_Scalar_meta(elements_type, test_elements) ==
    isin_Tensor_Tensor_meta(elements_type, test_elements.type)
isin_Scalar_Tensor_meta(elements, test_elements_type) ==
    isin_Tensor_Tensor_meta(elements.type, test_elements_type)

\* TORCH_IMPL_FUNC(isin_Tensor_Scalar_out): redispatch to eq / ne.
isin_Tensor_Scalar_out(elements, test_elements, invert) ==
    IF invert
    THEN [effects |-> <<"ne_out">>,
          out |-> [i \in 1..Len(elements) |-> ne(elements[i], test_elements.value)]]
    ELSE [effects |-> <<"eq_out">>,
          out |-> [i \in 1..Len(elements) |-> eq(elements[i], test_elements.value)]]

\* TORCH_IMPL_FUNC(isin_Scalar_Tensor_out): redispatch to the array/array isin
\* on the scalar wrapped into a one-element tensor.
isin_Scalar_Tensor_out(elements, test_elements_type, test_elements, assume_unique, invert, ue, ut) ==
    LET meta == isin_Tensor_Tensor_meta(elements.type, test_elements_type)
        impl == isin_Tensor_Tensor_out(<<elements.value>>, test_elements, assume_unique,
                                       invert, ue, ut)
    IN  IF meta.err # "none"
        THEN [err |-> meta.err, effects |-> <<"isin_out">> \o meta.effects, out |-> <<>>]
        ELSE [err |-> "none", effects |-> <<"isin_out">> \o meta.effects \o impl.effects,
              out |-> impl.out]

\* ------------------------------------------------------ min / max / mode
\* The number of elements of a tensor of the given sizes.
RECURSIVE numel(_)
numel(sizes) ==
    IF Len(sizes) = 0 THEN 1 ELSE sizes[1] * numel(Tail(sizes))

\* maybe_wrap_dim(dim, self.dim()): whether dim is in range, and the dimension
\* as a position 1..rank (0 for a scalar).
maybe_wrap_dim(dim, rank) ==
    LET range == IF rank = 0 THEN 1 ELSE rank
    IN  IF dim < 0 - range \/ dim > range - 1 THEN [ok |-> FALSE, dim |-> 0]
        ELSE IF rank = 0 THEN [ok |-> TRUE, dim |-> 0]
        ELSE IF dim < 0 THEN [ok |-> TRUE, dim |-> dim + range + 1]
        ELSE [ok |-> TRUE, dim |-> dim + 1]

\* zero_numel_check_dims: TRUE when it passes.  It fails when the reduced
\* dimension has size 0 while the other dimensions are non-empty.
zero_numel_check_dims(sizes, d) ==
    ~(/\ d \in 1..Len(sizes)
      /\ sizes[d] = 0
      /\ \A e \in 1..Len(sizes) : e # d => sizes[e] # 0)

\* check_unsupported_complex: TRUE when it passes.
check_unsupported_complex(self_type) == ~isComplexType(self_type)

\* TORCH_PRECOMPUTE_META_FUNC2(max, dim) and (min, dim).
minmax_meta(self_type, sizes, dim) ==
    LET d == maybe_wrap_dim(dim, Len(sizes))
    IN  IF ~d.ok THEN [err |-> "IndexOutOfRange", effects |-> <<>>]
        ELSE IF ~zero_numel_check_dims(sizes, d.dim)
        THEN [err |-> "EmptyReductionDim", effects |-> <<>>]
        ELSE IF ~check_unsupported_complex(self_type)
        THEN [err |-> "UnsupportedType", effects |-> <<>>]
        ELSE [err |-> "none", effects |-> <<"values.resize_", "indices.resize_">>]

\* minmax_out_impl taking its one-element path whatever the rank.
minmax_out_impl_NumelOnly(sizes, stub) ==
    IF numel(sizes) > 0
    THEN IF numel(sizes) = 1
         THEN <<"values.fill_", "indices.fill_">>
         ELSE <<stub>>
    ELSE <<>>

\* minmax_out_impl: what it does to values and indices.
minmax_out_impl(sizes, stub) ==
    IF numel(sizes) > 0
    THEN IF numel(sizes) = 1 /\ Len(sizes) = 0
         THEN <<"values.fill_", "indices.fill_">>
         ELSE <<stub>>
    ELSE <<>>

\* mode_out with values and indices resized before the dtypes are checked.
mode_out_ResizeFirst(self_device, layout, values_device, indices_device, self_type, values_type, indices_type, sizes, dim) ==
    LET d == maybe_wrap_dim(dim, Len(sizes))
        resized == <<"values.resize_", "indices.resize_">>
    IN  IF self_device \notin {"cpu", "cuda"}
        THEN [err |-> "UnsupportedDevice", effects |-> <<>>]
        ELSE IF layout # "Strided"
        THEN [err |-> "UnsupportedLayout", effects |-> <<>>]
        ELSE IF self_device # values_device \/ self_device # indices_device
        THEN [err |-> "DeviceMismatch", effects |-> <<>>]
        ELSE IF self_type # values_type \/ indices_type # "Long"
        THEN [err |-> "DtypeMismatch", effects |-> resized]
        ELSE IF ~d.ok
        THEN [err |-> "IndexOutOfRange", effects |-> resized]
        ELSE IF numel(sizes) = 0
        THEN IF ~zero_numel_check_dims(sizes, d.dim)
             THEN [err |-> "EmptyReductionDim", effects |-> resized]
             ELSE [err |-> "none", effects |-> resized]
        ELSE IF numel(sizes) = 1 /\ Len(sizes) = 0
        THEN [err |-> "none", effects |-> resized \o <<"values.fill_", "indices.fill_">>]
        ELSE [err |-> "none", effects |-> resized \o <<"mode_stub">>]

\* at::native::mode_out.
mode_out(self_device, layout, values_device, indices_device, self_type, values_type, indices_type, sizes, dim) ==
    LET d == maybe_wrap_dim(dim, Len(sizes))
    IN  IF self_device \notin {"cpu", "cuda"}
        THEN [err |-> "UnsupportedDevice", effects |-> <<>>]
        ELSE IF layout # "Strided"
        THEN [err |-> "UnsupportedLayout", effects |-> <<>>]
        ELSE IF self_device # values_device \/ self_device # indices_device
        THEN [err |-> "DeviceMismatch", effects |-> <<>>]
        ELSE IF self_type # values_type \/ indices_type # "Long"
        THEN [err |-> "DtypeMismatch", effects |-> <<>>]
        ELSE IF ~d.ok
        THEN [err |-> "IndexOutOfRange", effects |-> <<>>]
        ELSE IF numel(sizes) = 0
        THEN IF ~zero_numel_check_dims(sizes, d.dim)
             THEN [err |-> "EmptyReductionDim", effects |-> <<>>]
             ELSE [err |-> "none", effects |-> <<"values.resize_", "indices.resize_">>]
        ELSE IF numel(sizes) = 1 /\ Len(sizes) = 0
        THEN [err |-> "none",
              effects |-> <<"values.resize_", "values.fill_",
                            "indices.resize_", "indices.fill_">>]
        ELSE [err |-> "none", effects |-> <<"mode_stub">>]

\* ------------------------------------------------------------------ where
\* where_self_out warning on every byte condition.
where_self_out_AlwaysWarn(condition_type, self_type, other_type, was_warned) ==
    LET convert == IF self_type # other_type THEN <<"self.to", "other.to">> ELSE <<>>
    IN  IF condition_type = "Byte"
        THEN [err |-> "none",
              effects |-> convert \o <<"TORCH_WARN", "condition.to", "build", "where_kernel">>,
              warned |-> TRUE]
        ELSE IF condition_type # "Bool"
        THEN [err |-> "UnsupportedType", effects |-> convert, warned |-> was_warned]
        ELSE [err |-> "none", effects |-> convert \o <<"build", "where_kernel">>,
              warned |-> was_warned]

\* at::native::where_self_out: the error, the effects in order, and the flag of
\* TORCH_WARN_ONCE afterwards.
where_self_out(condition_type, self_type, other_type, was_warned) ==
    LET convert == IF self_type # other_type THEN <<"self.to", "other.to">> ELSE <<>>
    IN  IF condition_type = "Byte"
        THEN [err |-> "none",
              effects |-> convert \o (IF was_warned THEN <<>> ELSE <<"TORCH_WARN">>)
                            \o <<"condition.to", "build", "where_kernel">>,
              warned |-> TRUE]
        ELSE IF condition_type # "Bool"
        THEN [err |-> "UnsupportedType", effects |-> convert, warned |-> was_warned]
        ELSE [err |-> "none", effects |-> convert \o <<"build", "where_kernel">>,
              warned |-> was_warned]

\* condition.to(ScalarType::Bool) on a byte tensor: nonzero is true.
to_Bool(condition) == [i \in 1..Len(condition) |-> condition[i] # 0]

\* cond_bool of where_self_out: the condition the kernel reads.
cond_bool(condition_type, condition) ==
    IF condition_type = "Byte" THEN to_Bool(condition) ELSE condition

\* The where kernel on a boolean condition.
where_kernel(condition, self, other) ==
    [i \in 1..Len(condition) |-> IF condition[i] THEN self[i] ELSE other[i]]

\* What where_self_out leaves in out: nothing when it fails.
where_out(condition_type, self_type, other_type, condition, self, other) ==
    IF where_self_out(condition_type, self_type, other_type, FALSE).err # "none" THEN <<>>
    ELSE where_kernel(cond_bool(condition_type, condition), self, other)

\* ------------------------------------------------- isnan / isinf / isfinite
\* Tensor::abs on an element.
abs(x) ==
    IF x = NaN THEN NaN
    ELSE IF x = NegInf \/ x = PosInf THEN PosInf
    ELSE IF x < 0 THEN 0 - x ELSE x

\* at::real and at::imag of a complex tensor.
real(self) == [i \in 1..Len(self) |-> self[i].re]
imag(self) == [i \in 1..Len(self) |-> self[i].im]

\* at::isnan: self != self; a complex element differs from itself when a part does.
isnan(self_type, self) ==
    IF isComplexType(self_type)
    THEN [i \in 1..Len(self) |-> ne(self[i].re, self[i].re) \/ ne(self[i].im, self[i].im)]
    ELSE [i \in 1..Len(self) |-> ne(self[i], self[i])]

\* The floating-point branch of at::isinf.
isinf_floating(self) == [i \in 1..Len(self) |-> eq(abs(self[i]), PosInf)]

\* at::isinf.
isinf(self_type, self) ==
    IF isIntegralType(self_type, TRUE) THEN [i \in 1..Len(self) |-> FALSE]
    ELSE IF isComplexType(self_type)
    THEN [i \in 1..Len(self) |-> isinf_floating(real(self))[i] \/ isinf_floating(imag(self))[i]]
    ELSE isinf_floating(self)

\* The floating-point branch of at::isfinite without its (self == self) factor.
isfinite_floating_NoSelfEqual(self) ==
    [i \in 1..Len(self) |-> ne(abs(self[i]), PosInf)]

\* The floating-point branch of at::isfinite.
isfinite_floating(self) ==
    [i \in 1..Len(self) |-> eq(self[i], self[i]) /\ ne(abs(self[i]), PosInf)]

\* at::isfinite.
isfinite(self_type, self) ==
    IF isIntegralType(self_type, TRUE) THEN [i \in 1..Len(self) |-> TRUE]
    ELSE IF isComplexType(self_type)
    THEN [i \in 1..Len(self) |-> isfinite_floating(real(self))[i] /\ isfinite_floating(imag(self))[i]]
    ELSE isfinite_floating(self)

\* ------------------------------------------------------------------ state
VARIABLES
    op,      \* the operation of the last call
    args,    \* its arguments
    res,     \* what it did: the error raised, its effects in order, its output
    warned,  \* the flag of TORCH_WARN_ONCE in where_self_out
    warnings \* how many times the process has emitted that warning

vars == <<op, args, res, warned, warnings>>

Init ==
    /\ op = "none"
    /\ args = <<>>
    /\ res = [err |-> "none", effects |-> <<>>]
    /\ warned = FALSE
    /\ warnings = 0

\* Element values drawn for a tensor of the given dtype.
ValuesOf(type) ==
    IF isFloatingType(type) THEN (0..MaxVal) \cup {NaN} ELSE 0..MaxVal

\* Long test_elements: lengths around the heuristic's threshold for every
\* elements length drawn; all equal, cycling, or all distinct (descending).
LongLens == {HeuristicThreshold(n) + d : n \in 1..MaxElems, d \in {0 - 1, 0, 1}}
LongTests ==
    UNION {{[i \in 1..m |-> 0], [i \in 1..m |-> i % (MaxVal + 1)],
            [i \in 1..m |-> MaxVal + 1 - i]} : m \in LongLens}

\* The operands drawn for isin.  In full: every short sequence, and for
\* test_elements the long ones too, when both dtypes are Float.  Otherwise a few.
IsinElements(elements_type, test_elements_type, full) ==
    IF full /\ elements_type = "Float" /\ test_elements_type = "Float"
    THEN SeqsUpTo(ValuesOf("Float"), MaxElems)
    ELSE {<<>>, <<0>>, <<0, 0>>}
IsinTestElements(elements_type, test_elements_type, full) ==
    IF full /\ elements_type = "Float" /\ test_elements_type = "Float"
    THEN SeqsUpTo(ValuesOf("Float"), MaxTest) \cup LongTests
    ELSE {<<>>, <<0>>, [i \in 1..HeuristicThreshold(MaxElems) |-> 0]}

\* A direct call of isin_sorting on a non-empty elements.
\* Kept with the output: the sorted concatenation, the part each sorted entry
\* came from, and the duplicate mask.
IsinSortingCall ==
    /\ op = "none"
    /\ \E assume_unique, invert \in BOOLEAN,
          elements \in SeqsUpTo(ValuesOf("Float"), MaxElems) \ {<<>>},
          test_elements \in SeqsUpTo(ValuesOf("Float"), MaxTest) :
         \E ue \in UniqueCall(elements, assume_unique),
            ut \in UniqueCall(test_elements, assume_unique) :
           /\ op' = "isin_sorting"
           /\ args' = [elements |-> elements, test_elements |-> test_elements,
                       assume_unique |-> assume_unique, invert |-> invert]
           /\ res' = [err |-> "none", effects |-> <<"out.copy_">>,
                      out |-> isin_sorting(elements, test_elements, assume_unique,
                                           invert, ue, ut),
                      sorted_elements |->
                          SortedElements(elements, test_elements, assume_unique,
                                         ue, ut).values,
                      origin |->
                          SortedElements(elements, test_elements, assume_unique,
                                         ue, ut).origin,
                      duplicate_mask |->
                          DuplicateMask(SortedElements(elements, test_elements,
                                                       assume_unique, ue, ut).values,
                                        invert)]
           /\ UNCHANGED <<warned, warnings>>

\* at::isin(Tensor, Tensor): the meta step, then the impl step; on the full
\* set of operands or on a few.
IsinTensorTensor(full) ==
    /\ op = "none"
    /\ \E elements_type, test_elements_type \in
              {"Long", "Float", "Bool", "BFloat16", "ComplexFloat"},
          assume_unique, invert \in BOOLEAN :
         \E elements \in IsinElements(elements_type, test_elements_type, full),
            test_elements \in IsinTestElements(elements_type, test_elements_type, full) :
           \E ue \in UniqueCall(elements, assume_unique),
              ut \in UniqueCall(test_elements, assume_unique) :
             LET meta == isin_Tensor_Tensor_meta(elements_type, test_elements_type)
                 impl == isin_Tensor_Tensor_out(elements, test_elements, assume_unique,
                                                invert, ue, ut)
             IN  /\ op' = "isin_Tensor_Tensor"
                 /\ args' = [elements |-> elements, test_elements |-> test_elements,
                             elements_type |-> elements_type,
                             test_elements_type |-> test_elements_type,
                             assume_unique |-> assume_unique, invert |-> invert]
                 /\ res' = IF meta.err # "none"
                           THEN [err |-> meta.err, effects |-> meta.effects, out |-> <<>>]
                           ELSE [err |-> "none", effects |-> meta.effects \o impl.effects,
                                 out |-> impl.out]
                 /\ UNCHANGED <<warned, warnings>>

\* The dtypes of self and of tensor bounds drawn for clamp.
ClampTypes == {"Bool", "Long", "Float", "Double", "ComplexFloat"}
Outputs == {"undefined", "self", "other"}

\* at::clamp with optional scalar bounds.
ClampScalar ==
    /\ op = "none"
    /\ \E self_type \in ClampTypes, min, max \in Scalars \cup {None}, output \in Outputs :
         LET meta == clamp_meta(self_type, min, max, output)
         IN  /\ op' = "clamp"
             /\ args' = [self_type |-> self_type, min |-> min, max |-> max,
                         output |-> output]
             /\ res' = [err |-> meta.err,
                        effects |-> StructuredCall(meta, clamp_out(min, max)).effects,
                        result_type |-> meta.result_type, promoted |-> meta.promoted]
             /\ UNCHANGED <<warned, warnings>>

\* at::clamp_max with a scalar bound.
ClampMaxScalar ==
    /\ op = "none"
    /\ \E self_type \in ClampTypes, max \in Scalars, output \in Outputs :
         LET meta == clamp_max_meta(self_type, max, output)
         IN  /\ op' = "clamp_max"
             /\ args' = [self_type |-> self_type, min |-> None, max |-> max,
                         output |-> output]
             /\ res' = [err |-> meta.err,
                        effects |-> StructuredCall(meta, clamp_max_out(max)).effects,
                        result_type |-> meta.result_type, promoted |-> meta.promoted]
             /\ UNCHANGED <<warned, warnings>>

\* at::clamp_min with a scalar bound.
ClampMinScalar ==
    /\ op = "none"
    /\ \E self_type \in ClampTypes, min \in Scalars, output \in Outputs :
         LET meta == clamp_min_meta(self_type, min, output)
         IN  /\ op' = "clamp_min"
             /\ args' = [self_type |-> self_type, min |-> min, max |-> None,
                         output |-> output]
             /\ res' = [err |-> meta.err,
                        effects |-> StructuredCall(meta, clamp_min_out(min)).effects,
                        result_type |-> meta.result_type, promoted |-> meta.promoted]
             /\ UNCHANGED <<warned, warnings>>

\* at::clamp with optional tensor bounds.
ClampTensor ==
    /\ op = "none"
    /\ \E self_type \in ClampTypes, min_type, max_type \in ClampTypes \cup {"None"},
          output \in Outputs :
         /\ op' = "clamp.Tensor"
         /\ args' = [self_type |-> self_type, min_type |-> min_type,
                     max_type |-> max_type, output |-> output]
         /\ res' = StructuredCall(clamp_Tensor_meta(self_type, min_type, max_type),
                                  clamp_Tensor_out(min_type, max_type))
         /\ UNCHANGED <<warned, warnings>>

\* at::clamp_max with a tensor bound.
ClampMaxTensor ==
    /\ op = "none"
    /\ \E self_type, max_type \in ClampTypes, output \in Outputs :
         /\ op' = "clamp_max.Tensor"
         /\ args' = [self_type |-> self_type, min_type |-> "None",
                     max_type |-> max_type, output |-> output]
         /\ res' = StructuredCall(clamp_max_Tensor_meta(self_type, max_type),
                                  clamp_max_Tensor_out)
         /\ UNCHANGED <<warned, warnings>>

\* at::clamp_min with a tensor bound.
ClampMinTensor ==
    /\ op = "none"
    /\ \E self_type, min_type \in ClampTypes, output \in Outputs :
         /\ op' = "clamp_min.Tensor"
         /\ args' = [self_type |-> self_type, min_type |-> min_type,
                     max_type |-> "None", output |-> output]
         /\ res' = StructuredCall(clamp_min_Tensor_meta(self_type, min_type),
                                  clamp_min_Tensor_out)
         /\ UNCHANGED <<warned, warnings>>

\* The values of isclose operands: signed, and with both infinities when floating.
SignedValuesOf(type) ==
    IF isFloatingType(type)
    THEN ((0 - MaxVal)..MaxVal) \cup {PosInf, NegInf, NaN}
    ELSE (0 - MaxVal)..MaxVal

\* The tolerances drawn: negative, zero, positive and NaN.
Tolerances == {0 - 1, 0, 1, NaN}

\* The operands of isclose: pairs of two-element tensors when the call is
\* valid, one pair when validation rejects it.
IscloseOperands(self_type, other_type, rtol, atol) ==
    IF isclose_check(self_type, other_type, rtol, atol) = "none"
    THEN [1..2 -> SignedValuesOf(self_type)]
    ELSE {<<0, 1>>}

\* at::isclose.
IsClose ==
    /\ op = "none"
    /\ \E self_type, other_type \in {"Long", "Float", "QInt8"},
          rtol, atol \in Tolerances, equal_nan \in BOOLEAN :
         \E self, other \in IscloseOperands(self_type, other_type, rtol, atol) :
           /\ op' = "isclose"
           /\ args' = [self_type |-> self_type, other_type |-> other_type,
                       self |-> self, other |-> other,
                       rtol |-> rtol, atol |-> atol, equal_nan |-> equal_nan]
           /\ res' = isclose(self_type, other_type, self, other, rtol, atol, equal_nan)
           /\ UNCHANGED <<warned, warnings>>

\* at::isin(Tensor, Scalar).
IsinTensorScalar ==
    /\ op = "none"
    /\ \E elements_type \in {"Long", "Float", "Bool", "BFloat16", "ComplexFloat"},
          test_elements \in Scalars \cup {[type |-> "Bool", value |-> 1]},
          invert \in BOOLEAN :
         \E elements \in SeqsUpTo(ValuesOf(elements_type), 2) :
           LET meta == isin_Tensor_Scalar_meta(elements_type, test_elements)
               impl == isin_Tensor_Scalar_out(elements, test_elements, invert)
           IN  /\ op' = "isin_Tensor_Scalar"
               /\ args' = [elements_type |-> elements_type, elements |-> elements,
                           test_elements |-> test_elements, invert |-> invert]
               /\ res' = IF meta.err # "none"
                         THEN [err |-> meta.err, effects |-> meta.effects, out |-> <<>>]
                         ELSE [err |-> "none", effects |-> meta.effects \o impl.effects,
                               out |-> impl.out]
               /\ UNCHANGED <<warned, warnings>>

\* at::isin(Scalar, Tensor).
IsinScalarTensor ==
    /\ op = "none"
    /\ \E elements \in Scalars \cup {[type |-> "Bool", value |-> 1]},
          test_elements_type \in {"Long", "Float", "Bool", "BFloat16", "ComplexFloat"},
          assume_unique, invert \in BOOLEAN :
         \E test_elements \in IsinTestElements("Float", test_elements_type, TRUE) :
           \E ue \in UniqueCall(<<elements.value>>, assume_unique),
              ut \in UniqueCall(test_elements, assume_unique) :
             LET meta == isin_Scalar_Tensor_meta(elements, test_elements_type)
                 impl == isin_Scalar_Tensor_out(elements, test_elements_type, test_elements,
                                                assume_unique, invert, ue, ut)
             IN  /\ op' = "isin_Scalar_Tensor"
                 /\ args' = [elements |-> elements,
                             test_elements_type |-> test_elements_type,
                             test_elements |-> test_elements,
                             assume_unique |-> assume_unique, invert |-> invert]
                 /\ res' = IF meta.err # "none"
                           THEN [err |-> meta.err, effects |-> meta.effects, out |-> <<>>]
                           ELSE [err |-> impl.err, effects |-> meta.effects \o impl.effects,
                                 out |-> impl.out]
                 /\ UNCHANGED <<warned, warnings>>

\* The sizes of the tensors drawn for the reductions, and the dims.
Shapes == SeqsUpTo(0..MaxSize, MaxRank)
Dims == (0 - MaxRank - 1)..MaxRank

\* at::max(self, dim, keepdim) with its outputs.
MaxDim ==
    /\ op = "none"
    /\ \E self_type \in {"Long", "Float", "ComplexFloat"}, sizes \in Shapes,
          dim \in Dims, keepdim \in BOOLEAN :
         /\ op' = "max.dim"
         /\ args' = [self_type |-> self_type, sizes |-> sizes, dim |-> dim,
                     keepdim |-> keepdim]
         /\ res' = StructuredCall(minmax_meta(self_type, sizes, dim),
                                  minmax_out_impl(sizes, "max_stub"))
         /\ UNCHANGED <<warned, warnings>>

\* at::min(self, dim, keepdim) with its outputs.
MinDim ==
    /\ op = "none"
    /\ \E self_type \in {"Long", "Float", "ComplexFloat"}, sizes \in Shapes,
          dim \in Dims, keepdim \in BOOLEAN :
         /\ op' = "min.dim"
         /\ args' = [self_type |-> self_type, sizes |-> sizes, dim |-> dim,
                     keepdim |-> keepdim]
         /\ res' = StructuredCall(minmax_meta(self_type, sizes, dim),
                                  minmax_out_impl(sizes, "min_stub"))
         /\ UNCHANGED <<warned, warnings>>

\* The sizes drawn for mode_out: all of them once the checks on devices,
\* layout and dtypes pass, one otherwise.
ModeShapes(self_device, layout, values_device, indices_device, self_type, values_type, indices_type) ==
    IF mode_out(self_device, layout, values_device, indices_device,
                self_type, values_type, indices_type, <<1>>, 0).err = "none"
    THEN Shapes ELSE {<<1>>}

\* at::mode_out.
ModeOut ==
    /\ op = "none"
    /\ \E self_device \in {"cpu", "cuda", "xla"}, layout \in {"Strided", "Sparse"},
          values_device, indices_device \in {"cpu", "cuda"},
          self_type, values_type, indices_type \in {"Long", "Float"},
          dim \in Dims, keepdim \in BOOLEAN :
         \E sizes \in ModeShapes(self_device, layout, values_device, indices_device,
                                 self_type, values_type, indices_type) :
           /\ op' = "mode_out"
           /\ args' = [self_device |-> self_device, layout |-> layout,
                       values_device |-> values_device, indices_device |-> indices_device,
                       self_type |-> self_type, values_type |-> values_type,
                       indices_type |-> indices_type, sizes |-> sizes, dim |-> dim,
                       keepdim |-> keepdim]
           /\ res' = mode_out(self_device, layout, values_device, indices_device,
                              self_type, values_type, indices_type, sizes, dim)
           /\ UNCHANGED <<warned, warnings>>

\* The conditions drawn for where: booleans, bytes 0..MaxVal + 1, and one
\* tensor of any other dtype.
ConditionTypes == {"Bool", "Byte", "Long"}
Conditions(condition_type) ==
    IF condition_type = "Bool" THEN [1..2 -> BOOLEAN]
    ELSE IF condition_type = "Byte" THEN [1..2 -> 0..(MaxVal + 1)]
    ELSE {<<0, 1>>}

\* The number of warnings a call emitted.
Warnings(effects) == Cardinality({i \in 1..Len(effects) : effects[i] = "TORCH_WARN"})

\* at::where_self_out on two-element tensors.
WhereSelfOut ==
    /\ op = "none"
    /\ warnings < MaxWarnings
    /\ \E condition_type \in ConditionTypes, self_type, other_type \in {"Long", "Float"},
          self, other \in [1..2 -> 0..MaxVal] :
         \E condition \in Conditions(condition_type) :
           LET r == where_self_out(condition_type, self_type, other_type, warned)
           IN  /\ op' = "where_self_out"
               /\ args' = [condition_type |-> condition_type, self_type |-> self_type,
                           other_type |-> other_type, condition |-> condition,
                           self |-> self, other |-> other]
               /\ res' = [err |-> r.err, effects |-> r.effects,
                          out |-> where_out(condition_type, self_type, other_type,
                                            condition, self, other)]
               /\ warned' = r.warned
               /\ warnings' = warnings + Warnings(r.effects)

\* The tensors drawn for isnan, isinf and isfinite: two elements of the dtype.
ClassifyTypes == {"Float", "Long", "Bool", "ComplexFloat"}
ClassifyOperands(self_type) ==
    IF isComplexType(self_type)
    THEN [1..2 -> [re : SignedValuesOf("Float"), im : SignedValuesOf("Float")]]
    ELSE IF self_type = "Bool" THEN [1..2 -> 0..1]
    ELSE [1..2 -> SignedValuesOf(self_type)]

\* at::isnan.
IsNan ==
    /\ op = "none"
    /\ \E self_type \in ClassifyTypes :
         \E self \in ClassifyOperands(self_type) :
           /\ op' = "isnan"
           /\ args' = [self_type |-> self_type, self |-> self]
           /\ res' = [err |-> "none", effects |-> <<>>, out |-> isnan(self_type, self)]
           /\ UNCHANGED <<warned, warnings>>

\* at::isinf.
IsInf ==
    /\ op = "none"
    /\ \E self_type \in ClassifyTypes :
         \E self \in ClassifyOperands(self_type) :
           /\ op' = "isinf"
           /\ args' = [self_type |-> self_type, self |-> self]
           /\ res' = [err |-> "none", effects |-> <<>>, out |-> isinf(self_type, self)]
           /\ UNCHANGED <<warned, warnings>>

\* at::isfinite.
IsFinite ==
    /\ op = "none"
    /\ \E self_type \in ClassifyTypes :
         \E self \in ClassifyOperands(self_type) :
           /\ op' = "isfinite"
           /\ args' = [self_type |-> self_type, self |-> self]
           /\ res' = [err |-> "none", effects |-> <<>>, out |-> isfinite(self_type, self)]
           /\ UNCHANGED <<warned, warnings>>

\* The call has returned to its caller: the next call starts from the state
\* the library keeps between calls.
Return ==
    /\ op # "none"
    /\ op' = "none"
    /\ args' = <<>>
    /\ res' = [err |-> "none", effects |-> <<>>]
    /\ UNCHANGED <<warned, warnings>>

\* Every operation of the module, isin on a few operands.
Next ==
    \/ IsinTensorTensor(FALSE)
    \/ IsinTensorScalar
    \/ IsinScalarTensor
    \/ ClampScalar
    \/ ClampMaxScalar
    \/ ClampMinScalar
    \/ ClampTensor
    \/ ClampMaxTensor
    \/ ClampMinTensor
    \/ IsClose
    \/ MaxDim
    \/ MinDim
    \/ ModeOut
    \/ WhereSelfOut
    \/ IsNan
    \/ IsInf
    \/ IsFinite
    \/ Return

Spec == Init /\ [][Next]_vars

\* The array/array isin on the full set of operands, and isin_sorting alone.
NextIsin ==
    \/ IsinSortingCall
    \/ IsinTensorTensor(TRUE)
    \/ Return

SpecIsin == Init /\ [][NextIsin]_vars

\* ------------------------------------------------------------------ claims
\* The brute-force mask: invert XOR (elements[i] in test_elements).
BruteForceMask(elements, test_elements, invert) ==
    [i \in 1..Len(elements) |->
        invert # (\E j \in 1..Len(test_elements) : eq(elements[i], test_elements[j]))]

\* The sort-based path ran in the last call.
RanSorting ==
    \/ op = "isin_sorting"
    \/ op = "isin_Tensor_Tensor" /\ res.err = "none" /\ "isin_sorting" \in {res.effects[i] : i \in DOMAIN res.effects}

HasDuplicates(x) == \E i, j \in 1..Len(x) : i < j /\ eq(x[i], x[j])

\* C1 as stated: whenever the sort-based path ran, for any flags, it wrote the
\* brute-force mask.
C1_SortingEqualsBruteForce ==
    RanSorting => res.out = BruteForceMask(args.elements, args.test_elements, args.invert)

\* C1 amended: the sort-based path writes the brute-force mask whenever
\* assume_unique is false, and with assume_unique true whenever neither
\* elements nor test_elements holds a repeated value.
C1_SortingEqualsBruteForceUnique ==
    (RanSorting /\ (args.assume_unique =>
                        ~HasDuplicates(args.elements) /\ ~HasDuplicates(args.test_elements)))
        => res.out = BruteForceMask(args.elements, args.test_elements, args.invert)

\* C1 witness: the sort-based path ran from the impl step with assume_unique
\* on duplicate-free operands, inverted, and found a member and a non-member.
C1_Witness ==
    /\ op = "isin_Tensor_Tensor" /\ RanSorting
    /\ args.assume_unique /\ args.invert
    /\ ~HasDuplicates(args.elements) /\ ~HasDuplicates(args.test_elements)
    /\ \E i, j \in 1..Len(res.out) : res.out[i] /\ ~res.out[j]

\* C2: with assume_unique false the sort-based path yields, at every original
\* position of elements, invert XOR membership in test_elements.
C2_SortingMembership ==
    (RanSorting /\ ~args.assume_unique)
        => \A i \in 1..Len(args.elements) :
              res.out[i] = (args.invert #
                  (\E j \in 1..Len(args.test_elements) :
                      eq(args.elements[i], args.test_elements[j])))

\* C2 witness: a value repeated in elements that is a member of test_elements
\* gets the verdict at both positions, next to a non-member.
C2_Witness ==
    /\ RanSorting /\ ~args.assume_unique /\ ~args.invert
    /\ \E i, j, k \in 1..Len(args.elements) :
          /\ i < j /\ eq(args.elements[i], args.elements[j])
          /\ res.out[i] /\ res.out[j] /\ ~res.out[k]

\* C7: with an empty elements the array/array isin impl returns at once: after
\* the meta step created the mask nothing runs, nothing is written and no
\* error is raised, whatever test_elements, assume_unique and invert are.
C7_EmptyElementsReturns ==
    (/\ op = "isin_Tensor_Tensor"
     /\ check_for_unsupported_isin_dtype(args.elements_type)
     /\ check_for_unsupported_isin_dtype(args.test_elements_type)
     /\ Len(args.elements) = 0)
        => res.err = "none" /\ res.effects = <<"set_output">> /\ res.out = <<>>

\* C7 witness: an empty elements against test_elements long enough for the
\* sort-based path, with both flags set.
C7_Witness ==
    /\ op = "isin_Tensor_Tensor" /\ res.err = "none"
    /\ Len(args.elements) = 0
    /\ Len(args.test_elements) >= HeuristicThreshold(1)
    /\ args.assume_unique /\ args.invert
    /\ res.effects = <<"set_output">>

\* The scalar-bound and the array-bound clamp operations.
ScalarClampOps == {"clamp", "clamp_min", "clamp_max"}
TensorClampOps == {"clamp.Tensor", "clamp_min.Tensor", "clamp_max.Tensor"}

\* The effects of the impl step of the call: those after the meta step's one.
ImplEffects == SubSeq(res.effects, 2, Len(res.effects))

\* C3 as stated: in every scalar-bound clamp operation whose meta step passed, a
\* NaN bound makes the impl step fill the output with NaN and dispatch no kernel.
C3_NaNBoundFillsOutput ==
    (/\ op \in ScalarClampOps /\ res.err = "none"
     /\ (ScalarIsNaN(args.min) \/ ScalarIsNaN(args.max)))
        => ImplEffects = <<"fill_NaN">>

\* Some operand of the clamp call is complex: self, a scalar or an array bound.
ComplexOperand ==
    \/ op \in ScalarClampOps
         /\ (isComplexType(args.self_type) \/ ScalarIsComplex(args.min)
                \/ ScalarIsComplex(args.max))
    \/ op \in TensorClampOps
         /\ (isComplexType(args.self_type) \/ isComplexType(args.min_type)
                \/ isComplexType(args.max_type))

\* C4 as stated: every clamp variant fails with UnsupportedType in its meta step
\* whenever an operand is complex.  Stated on the calls where no other check of
\* the meta step can come first: a bound is given and the call is not in place.
C4_ComplexRejected ==
    (/\ ComplexOperand
     /\ args.output # "self"
     /\ op = "clamp" => (args.min.type # "None" \/ args.max.type # "None")
     /\ op = "clamp.Tensor" => (args.min_type # "None" \/ args.max_type # "None"))
        => res.err = "UnsupportedType"

\* The dtype promoted over self and the given scalar bounds.
PromotedType == result_type(args.self_type, args.min, args.max)

\* The in-place check of scalar-bound clamp passes, and a floating self is
\* never promoted: the second and third parts of C5.
C5_CheckPassesOtherwise ==
    /\ (/\ ~isFloatingType(args.self_type)
        /\ (args.output # "self" \/ PromotedType = args.self_type))
           => res.err # "UnsafeCast"
    /\ isFloatingType(args.self_type)
           => /\ ~res.promoted
              /\ res.err = "none" => res.result_type = args.self_type

\* C5 as stated: for scalar-bound clamp, clamp_min and clamp_max a non-floating
\* self written in place whose promoted dtype differs fails with UnsafeCast;
\* otherwise the check passes; a floating self is not promoted.
C5_InplacePromotionUnsafeCast ==
    op \in ScalarClampOps =>
        /\ (/\ ~isFloatingType(args.self_type) /\ args.output = "self"
            /\ PromotedType # args.self_type
            /\ (args.min.type # "None" \/ args.max.type # "None"))
               => res.err = "UnsafeCast"
        /\ C5_CheckPassesOtherwise

\* C5 amended: as stated for clamp; for clamp_min and clamp_max only when the
\* bound is not complex, a complex bound failing with UnsupportedType first.
C5_InplacePromotionUnsafeCastAmended ==
    op \in ScalarClampOps =>
        /\ (/\ ~isFloatingType(args.self_type) /\ args.output = "self"
            /\ PromotedType # args.self_type
            /\ (args.min.type # "None" \/ args.max.type # "None")
            /\ (op \in {"clamp_min", "clamp_max"}
                   => ~ScalarIsComplex(args.min) /\ ~ScalarIsComplex(args.max)))
               => res.err = "UnsafeCast"
        /\ (/\ op \in {"clamp_min", "clamp_max"}
            /\ ~isComplexType(args.self_type)
            /\ (ScalarIsComplex(args.min) \/ ScalarIsComplex(args.max)))
               => res.err = "UnsupportedType"
        /\ C5_CheckPassesOtherwise

\* C5 witness: an in-place clamp_min of an integer self by a double bound was
\* refused with UnsafeCast.
C5_Witness ==
    /\ op = "clamp_min" /\ args.self_type = "Long" /\ args.output = "self"
    /\ args.min.type = "Double" /\ PromotedType = "Float"
    /\ res.err = "UnsafeCast" /\ res.effects = <<>>

\* C8: array-bound clamp dispatches exactly one kernel, chosen by the bounds
\* present: the combined clamp kernel for both, maximum for min only, minimum
\* for max only; clamp_min is maximum and clamp_max is minimum.
C8_TensorClampKernel ==
    /\ (op = "clamp.Tensor" /\ res.err = "none") =>
          ImplEffects =
              IF args.min_type # "None" /\ args.max_type # "None" THEN <<"clamp_stub">>
              ELSE IF args.min_type # "None" THEN <<"maximum_stub">>
              ELSE <<"minimum_stub">>
    /\ op = "clamp_min.Tensor" => res.err = "none" /\ ImplEffects = <<"maximum_stub">>
    /\ op = "clamp_max.Tensor" => res.err = "none" /\ ImplEffects = <<"minimum_stub">>

\* C8 witness: clamp with only a min array dispatched the maximum kernel.
C8_Witness ==
    /\ op = "clamp.Tensor" /\ res.err = "none"
    /\ args.min_type = "Float" /\ args.max_type = "None"
    /\ res.effects = <<"build", "maximum_stub">>

\* C9: with rtol = 0 and atol = 0 isclose returns exactly the mask
\* (a = b) or (equal_nan and both NaN) and computes no error; so on x against
\* x it is true everywhere with equal_nan, and false exactly at the NaN
\* positions without.
C9_ZeroTolerancesShortCircuit ==
    (op = "isclose" /\ res.err = "none" /\ args.rtol = 0 /\ args.atol = 0) =>
        /\ ~res.error_computed
        /\ \A i \in 1..Len(args.self) :
              /\ res.out[i] =
                    (\/ (args.self[i] # NaN /\ args.self[i] = args.other[i])
                     \/ (args.equal_nan /\ args.self[i] = NaN /\ args.other[i] = NaN))
              /\ args.self = args.other =>
                    res.out[i] = (args.equal_nan \/ args.self[i] # NaN)

\* C9 witness: x against x with a NaN and a number, zero tolerances and no
\* equal_nan: false at the NaN, true at the number.
C9_Witness ==
    /\ op = "isclose" /\ res.err = "none" /\ args.rtol = 0 /\ args.atol = 0
    /\ ~args.equal_nan /\ args.self = args.other
    /\ args.self[1] = NaN /\ args.self[2] = 0
    /\ res.out = <<FALSE, TRUE>>

\* t < 0 on a double: false for a NaN.
LessThanZero(t) == t # NaN /\ t < 0

\* C10 as stated: isclose fails with DtypeMismatch on differing dtypes,
\* otherwise with UnsupportedType on a quantized operand, otherwise with
\* InvalidArgument on rtol < 0, otherwise with InvalidArgument on atol < 0, and
\* otherwise does not fail.
C10_ValidationOrder ==
    op = "isclose" =>
        res.err =
            IF args.self_type # args.other_type THEN "DtypeMismatch"
            ELSE IF is_quantized(args.self_type) \/ is_quantized(args.other_type)
            THEN "UnsupportedType"
            ELSE IF LessThanZero(args.rtol) THEN "InvalidArgument"
            ELSE IF LessThanZero(args.atol) THEN "InvalidArgument"
            ELSE "none"

\* C10 amended: as stated, with the tolerance checks failing on every rtol
\* (then atol) that is not >= 0: negative or NaN.
C10_ValidationOrderAmended ==
    op = "isclose" =>
        /\ res.failed =
              IF args.self_type # args.other_type THEN "dtype"
              ELSE IF is_quantized(args.self_type) \/ is_quantized(args.other_type)
              THEN "quantized"
              ELSE IF LessThanZero(args.rtol) \/ args.rtol = NaN THEN "rtol"
              ELSE IF LessThanZero(args.atol) \/ args.atol = NaN THEN "atol"
              ELSE "none"
        /\ res.err = (IF res.failed = "dtype" THEN "DtypeMismatch"
                      ELSE IF res.failed = "quantized" THEN "UnsupportedType"
                      ELSE IF res.failed = "none" THEN "none"
                      ELSE "InvalidArgument")
        /\ res.err # "none" => res.effects = <<>> /\ res.out = <<>>

\* C10 witness: a quantized operand of another dtype than the other, with both
\* tolerances negative, failed on the dtypes.
C10_Witness ==
    /\ op = "isclose" /\ args.self_type = "QInt8" /\ args.other_type = "Float"
    /\ LessThanZero(args.rtol) /\ LessThanZero(args.atol)
    /\ res.err = "DtypeMismatch"

\* What a call does to a caller's output or dispatches to a kernel.
OutputEffects ==
    {"set_output", "build", "build_unary_op", "build_borrowing_unary_op",
     "build_borrowing_binary_op", "values.resize_", "indices.resize_",
     "values.fill_", "indices.fill_", "out.fill_", "out.copy_", "fill_NaN",
     "eq_out", "ne_out", "isin_out"}
KernelStubs ==
    {"isin_default_stub", "isin_sorting", "clamp_stub", "clamp_scalar_stub",
     "clamp_min_scalar_stub", "clamp_max_scalar_stub", "maximum_stub", "minimum_stub",
     "max_stub", "min_stub", "mode_stub", "where_kernel", "eq", "isfinite", "le"}

ClassesTrue(i) ==
    (IF isnan(args.self_type, args.self)[i] THEN 1 ELSE 0)
    + (IF isinf(args.self_type, args.self)[i] THEN 1 ELSE 0)
    + (IF isfinite(args.self_type, args.self)[i] THEN 1 ELSE 0)

\* C11: on every floating-point element exactly one of isnan, isinf, isfinite
\* is true: isfinite and isinf are never both true, exactly one of them is true
\* of a value that is not NaN, and of NaN both are false and isnan is true; on
\* integer and boolean tensors isinf is all false and isfinite all true.
C11_ClassificationPartition ==
    op \in {"isnan", "isinf", "isfinite"} =>
        /\ res.out = (IF op = "isnan" THEN isnan(args.self_type, args.self)
                      ELSE IF op = "isinf" THEN isinf(args.self_type, args.self)
                      ELSE isfinite(args.self_type, args.self))
        /\ isFloatingType(args.self_type) =>
              \A i \in 1..Len(args.self) :
                 LET x == args.self[i]
                     nan == isnan(args.self_type, args.self)[i]
                     inf == isinf(args.self_type, args.self)[i]
                     finite == isfinite(args.self_type, args.self)[i]
                 IN  /\ ClassesTrue(i) = 1
                     /\ ~(finite /\ inf)
                     /\ nan = (x = NaN)
                     /\ x # NaN => (finite # inf)
                     /\ x = NaN => (~finite /\ ~inf)
                     /\ inf = (x \in {PosInf, NegInf})
        /\ isIntegralType(args.self_type, TRUE) =>
              \A i \in 1..Len(args.self) :
                 /\ ~isinf(args.self_type, args.self)[i]
                 /\ isfinite(args.self_type, args.self)[i]

\* C11 witness: isfinite of a floating tensor holding NaN and -infinity is
\* false at both.
C11_Witness ==
    /\ op = "isfinite" /\ args.self_type = "Float"
    /\ args.self = <<NaN, NegInf>> /\ res.out = <<FALSE, FALSE>>

\* C12: scalar-bound and array-bound clamp called with neither min nor max fail
\* with InvalidArgument in the meta step, whatever self's dtype and the output:
\* before the complex check, before promotion, before the output is built.
C12_NoBoundInvalidArgument ==
    /\ (op = "clamp" /\ args.min.type = "None" /\ args.max.type = "None") =>
          res.err = "InvalidArgument" /\ ~res.promoted /\ res.effects = <<>>
    /\ (op = "clamp.Tensor" /\ args.min_type = "None" /\ args.max_type = "None") =>
          res.err = "InvalidArgument" /\ res.effects = <<>>

\* C12 witness: an in-place clamp of a complex self with no bound failed with
\* InvalidArgument, not with the complex check's error.
C12_Witness ==
    /\ op = "clamp" /\ isComplexType(args.self_type) /\ args.output = "self"
    /\ args.min.type = "None" /\ args.max.type = "None"
    /\ res.err = "InvalidArgument" /\ res.effects = <<>>

\* m < 10 * n^0.145 as a comparison of real numbers, for an integer m: the
\* power is irrational unless n <= 1, and then the table holds it exactly.
RealLess(m, n) == 1000 * m < Pow145Milli(n)

\* C13 as stated: with elements not empty the array/array isin takes the
\* brute-force path (fill, then isin_default_stub) exactly when
\* m < 10 * n^0.145 over the reals, the sort-based path otherwise, and exactly
\* one of the two per call.
C13_HeuristicRealComparison ==
    (op = "isin_Tensor_Tensor" /\ res.err = "none" /\ Len(args.elements) > 0) =>
        ImplEffects =
            IF RealLess(Len(args.test_elements), Len(args.elements))
            THEN <<"out.fill_", "isin_default_stub">>
            ELSE <<"isin_sorting", "out.copy_">>

\* The effects of the impl step of min / max with dim: those after the two
\* resizes of the meta step.
MinMaxImplEffects == SubSeq(res.effects, 3, Len(res.effects))

\* How many times the call dispatched the reduction kernel.
StubCalls == Cardinality({i \in 1..Len(res.effects) : res.effects[i] \in {"max_stub", "min_stub"}})

\* C14: the impl step of min / max dispatches the reduction kernel at most
\* once: never on an empty input, whose outputs stay as the meta step sized
\* them; never on a one-element input of rank 0, where values and indices are
\* filled; exactly once otherwise, a one-element input of rank >= 1 included.
C14_KernelAtMostOnce ==
    (op \in {"max.dim", "min.dim"} /\ res.err = "none") =>
        LET stub == IF op = "max.dim" THEN "max_stub" ELSE "min_stub"
        IN  /\ StubCalls <= 1
            /\ SubSeq(res.effects, 1, 2) = <<"values.resize_", "indices.resize_">>
            /\ numel(args.sizes) = 0 => MinMaxImplEffects = <<>>
            /\ (numel(args.sizes) = 1 /\ Len(args.sizes) = 0) =>
                  MinMaxImplEffects = <<"values.fill_", "indices.fill_">>
            /\ (numel(args.sizes) > 0 /\ ~(numel(args.sizes) = 1 /\ Len(args.sizes) = 0)) =>
                  MinMaxImplEffects = <<stub>> /\ StubCalls = 1

\* C14 witness: max over the one dimension of a one-element tensor of rank 1
\* dispatched the kernel once.
C14_Witness ==
    /\ op = "max.dim" /\ args.sizes = <<1>> /\ res.err = "none"
    /\ MinMaxImplEffects = <<"max_stub">>

\* C15: over any sequence of where calls the byte-condition warning is
\* emitted at most once, by the first call with a byte condition; every call
\* with a byte condition, warned or not, succeeds, and its output is that of
\* the same call with the condition converted to boolean.
C15_ByteConditionWarnsOnce ==
    /\ warnings <= 1
    /\ warnings = (IF warned THEN 1 ELSE 0)
    /\ (op = "where_self_out" /\ args.condition_type = "Byte") =>
          /\ res.err = "none"
          /\ warned /\ warnings = 1
          /\ res.out = where_out("Bool", args.self_type, args.other_type,
                                 to_Bool(args.condition), args.self, args.other)
          /\ \A i \in 1..Len(res.out) :
                res.out[i] = IF args.condition[i] # 0 THEN args.self[i] ELSE args.other[i]
    /\ (op = "where_self_out" /\ args.condition_type # "Byte") =>
          Warnings(res.effects) = 0

\* C15 witness: a later call with a byte condition holding a 2, after the
\* warning had been emitted: no warning again, and the element of self taken.
C15_Witness ==
    /\ op = "where_self_out" /\ args.condition_type = "Byte"
    /\ Warnings(res.effects) = 0 /\ warnings = 1
    /\ args.condition = <<2, 0>> /\ args.self = <<1, 1>> /\ args.other = <<0, 0>>
    /\ res.err = "none" /\ res.out = <<1, 0>>

\* Among sorted entries of equal value, those from elements come before those
\* from test_elements.
ElementsBeforeTestElements ==
    \A i, j \in 1..Len(res.sorted_elements) :
        (/\ eq(res.sorted_elements[i], res.sorted_elements[j])
         /\ res.origin[i] = "elements" /\ res.origin[j] = "test_elements") => i < j

\* Without invert, a true of the duplicate mask marks an entry from elements
\* whose value occurs in test_elements.
TrueMeansMember ==
    ~args.invert =>
        \A i \in 1..Len(res.duplicate_mask) :
            res.duplicate_mask[i] =>
                /\ res.origin[i] = "elements"
                /\ \E k \in 1..Len(args.test_elements) :
                      eq(res.sorted_elements[i], args.test_elements[k])

\* The last sorted position of the duplicate mask holds invert.
LastHoldsInvert == res.duplicate_mask[Len(res.duplicate_mask)] = args.invert

\* C16 as stated: in every run of isin_sorting, after the stable sort, equal
\* values have their elements entries before their test_elements entries; and
\* without invert a true of the duplicate mask means an entry from elements
\* whose value occurs in test_elements; the last position holds invert.
C16_StableSortDuplicateMask ==
    op = "isin_sorting" =>
        ElementsBeforeTestElements /\ TrueMeansMember /\ LastHoldsInvert

\* C16 amended: the ordering and the last position in every run; the meaning
\* of a true of the mask whenever assume_unique is false, and with
\* assume_unique true whenever neither operand holds a repeated value.
C16_StableSortDuplicateMaskUnique ==
    op = "isin_sorting" =>
        /\ ElementsBeforeTestElements
        /\ LastHoldsInvert
        /\ (args.assume_unique =>
                ~HasDuplicates(args.elements) /\ ~HasDuplicates(args.test_elements))
              => TrueMeansMember

\* C16 witness: a run without invert where a value of elements is followed in
\* sorted order by its equal from test_elements and marked true, with another
\* entry after them.
C16_Witness ==
    /\ op = "isin_sorting" /\ ~args.invert
    /\ \E i \in 1..(Len(res.sorted_elements) - 2) :
          /\ res.origin[i] = "elements" /\ res.origin[i + 1] = "test_elements"
          /\ eq(res.sorted_elements[i], res.sorted_elements[i + 1])
          /\ res.duplicate_mask[i] /\ ~res.duplicate_mask[i + 1]

====
